---- MODULE Spec2Model ----
(***************************************************************************)
(* The collection coordinator (packages/core/src/collection.ts, the xstate *)
(* version starting at line 240), the transaction machine                  *)
(* (transaction.ts, kept as unnamed/part_006) and the write-through        *)
(* behaviour of the mutation proxy (packages/core/src/proxy.ts), as one    *)
(* state machine.  One action is one call of the public interface, or one  *)
(* microtask, run to completion: the events a call sends are processed     *)
(* inside the action, in mailbox order, and the actor's subscriber (which  *)
(* drains the sync buffer) runs after every processed event.               *)
(***************************************************************************)
EXTENDS Integers, Sequences, FiniteSets, TLC

(* ------------------------------ bounds -------------------------------- *)

\* calls of the public interface (and sync messages) in one run
MaxCalls == 5

\* the same, in the runs of LongSpec
MaxLongCalls == 7

\* calls of mergeDelta in the runs of DeltaSpec
MaxMergeCalls == 2

\* the offsets a sync engine may stamp on a change message
Offsets == {1, 2}

\* ids (nanoid) of the transactions the application creates, in order
ExplicitTxIds == <<"t1", "t2">>
TxIds == {ExplicitTxIds[i] : i \in 1..Len(ExplicitTxIds)}

\* ids (nanoid) of the transactions createBatchTransaction creates, in order
BatchTxIds == <<"b1", "b2", "b3", "b4", "b5", "b6", "b7", "b8">>

\* sync keys and top-level fields of the records
Keys == {"k1"}
Fields == {"title", "count"}

(* ----------------------------- constants ------------------------------ *)

\* the lock owner used when a call names no transaction
BatchOwner == "batch-transaction"

\* JavaScript null and undefined, and the id the machine's context starts with
Null == "null"
Undefined == "undefined"
InitialBatchId == "nanoid-0"

\* the item `{}` that Collection.remove puts in its delete event
EmptyObject == 0

(* ------------------------------- state -------------------------------- *)

VARIABLES
    heap,                 \* the objects: plain records and mutation proxies
    items,                \* context.items: tracking id -> object
    pendingItems,         \* context.pendingItems: tracking id -> proxy
    lockedItems,          \* context.lockedItems: tracking id -> transaction id
    transactionActors,    \* context.transactionActors: the registered ids
    pendingSyncChanges,   \* context.pendingSyncChanges, in arrival order
    syncKeyToTrackingId,  \* context.syncKeyToTrackingId
    batchTransaction,     \* context.batchTransaction
    isUpToDate,           \* context.isUpToDate
    stopped,              \* the collection actor stopped on an action's error
    onMutation,           \* options.onMutation: how the handler given ends a call
    txs,                  \* transaction id -> [state, operations]
    nextTrackingId,       \* tracking ids handed out so far, plus one
    microtasks,           \* PROCESS_BATCH sends waiting in the microtask queue
    onMutationCalls,      \* the argument of every onMutation call, in order
    completedEvents,      \* the TRANSACTION_COMPLETED events sent to the parent
    drained,              \* the buffer as the latest drain found it
    turn,                 \* the mutations queued since the batch transaction began
    localWrites,          \* history: transaction id -> the paths its updaters wrote
    recordsBefore,        \* history: transaction id -> the records of items at its first call
    callsLeft,            \* calls the run may still make
    last                  \* the last call and how it ended

vars == <<heap, items, pendingItems, lockedItems, transactionActors,
          pendingSyncChanges, syncKeyToTrackingId, batchTransaction,
          isUpToDate, stopped, txs, nextTrackingId, microtasks,
          onMutationCalls, completedEvents, drained,
          turn, localWrites, recordsBefore, onMutation, callsLeft, last>>

\* the state as one record, threaded through the handlers below
World ==
    [heap |-> heap, items |-> items, pendingItems |-> pendingItems,
     lockedItems |-> lockedItems, transactionActors |-> transactionActors,
     pendingSyncChanges |-> pendingSyncChanges,
     syncKeyToTrackingId |-> syncKeyToTrackingId,
     batchTransaction |-> batchTransaction, isUpToDate |-> isUpToDate,
     stopped |-> stopped, txs |-> txs, nextTrackingId |-> nextTrackingId,
     microtasks |-> microtasks, onMutationCalls |-> onMutationCalls,
     completedEvents |-> completedEvents, drained |-> drained,
     turn |-> turn, localWrites |-> localWrites,
     recordsBefore |-> recordsBefore, onMutation |-> onMutation]

Becomes(w) ==
    /\ heap' = w.heap
    /\ items' = w.items
    /\ pendingItems' = w.pendingItems
    /\ lockedItems' = w.lockedItems
    /\ transactionActors' = w.transactionActors
    /\ pendingSyncChanges' = w.pendingSyncChanges
    /\ syncKeyToTrackingId' = w.syncKeyToTrackingId
    /\ batchTransaction' = w.batchTransaction
    /\ isUpToDate' = w.isUpToDate
    /\ stopped' = w.stopped
    /\ txs' = w.txs
    /\ nextTrackingId' = w.nextTrackingId
    /\ microtasks' = w.microtasks
    /\ onMutationCalls' = w.onMutationCalls
    /\ completedEvents' = w.completedEvents
    /\ drained' = w.drained
    /\ turn' = w.turn
    /\ localWrites' = w.localWrites
    /\ recordsBefore' = w.recordsBefore
    /\ onMutation' = w.onMutation

(* ------------------------- maps and sequences ------------------------- *)

MapSet(m, k, v) == [x \in DOMAIN m \cup {k} |-> IF x = k THEN v ELSE m[x]]
MapDelete(m, k) == [x \in DOMAIN m \ {k} |-> m[x]]
EmptyMap == [x \in {} |-> x]

(* ------------------------------ objects ------------------------------- *)

\* the value the schema rejects; SchemaValid is the configured validator
Bad == "bad"
SchemaValid(value) == \A f \in Fields : value[f] # Bad

\* a plain object: an inserted item, or the value of a sync message
PlainObject(trackingId, value) ==
    [kind |-> "plain", trackingId |-> trackingId, value |-> value,
     target |-> EmptyObject, delta |-> EmptyMap]

\* createMutationProxy(target): a proxy with a delta of its own
createMutationProxy(target) ==
    [kind |-> "proxy", trackingId |-> 0, value |-> [f \in Fields |-> Undefined],
     target |-> target, delta |-> EmptyMap]

\* the plain object a reference reads and writes: proxies have no fields of
\* their own, every get and set trap forwards to the target
RECURSIVE BaseOf(_, _)
BaseOf(h, ref) ==
    IF h[ref].kind = "plain" THEN ref ELSE BaseOf(h, h[ref].target)

\* the proxy whose set trap records the write: createNestedProxy returns an
\* object that is already a proxy as it is, so a proxy made around a proxy
\* never records anything itself
RECURSIVE RecordingProxyOf(_, _)
RecordingProxyOf(h, ref) ==
    IF h[h[ref].target].kind = "plain" THEN ref
    ELSE RecordingProxyOf(h, h[ref].target)

ValueOf(h, ref) == h[BaseOf(h, ref)].value
TrackingIdOf(h, ref) == h[BaseOf(h, ref)].trackingId

\* delta[tag][path] = value.  The delta is kept as getDelta returns it: a
\* tag that has no entry is left out
Tagged(delta, tag, path, value) ==
    MapSet(delta, tag,
           MapSet(IF tag \in DOMAIN delta THEN delta[tag] ELSE EmptyMap,
                  path, value))

\* a set trap that records every write, whatever the value before it
ProxySetAlways(h, ref, field, value) ==
    LET base == BaseOf(h, ref)
        rec == RecordingProxyOf(h, ref)
        written == [h EXCEPT ![base].value[field] = value]
    IN  [written EXCEPT ![rec].delta = Tagged(@, "$set", field, value)]

\* proxy[field] = value (the set trap): the write lands on the plain object and
\* $set[field] is recorded unless Object.is(prevValue, value)
ProxySet(h, ref, field, value) ==
    LET base == BaseOf(h, ref)
        rec == RecordingProxyOf(h, ref)
        prevValue == h[base].value[field]
        written == [h EXCEPT ![base].value[field] = value]
    IN  IF prevValue # value
        THEN [written EXCEPT ![rec].delta = Tagged(@, "$set", field, value)]
        ELSE written

\* the deleteProperty trap: the attribute leaves the plain object and
\* $unset[field] = true is recorded
ProxyDelete(h, ref, field) ==
    LET base == BaseOf(h, ref)
        rec == RecordingProxyOf(h, ref)
    IN  [h EXCEPT ![base].value[field] = Undefined,
                  ![rec].delta = Tagged(@, "$unset", field, "true")]

\* Array.prototype.push, pop, shift, unshift and splice on a plain array;
\* the arguments of splice are [start, deleteCount, items]
Min(a, b) == IF a < b THEN a ELSE b

ArrayMethod(array, method, args) ==
    CASE method \in {"push", "append"} -> array \o args
      [] method = "pop" ->
             IF array = << >> THEN array
             ELSE SubSeq(array, 1, Len(array) - 1)
      [] method = "shift" -> IF array = << >> THEN array ELSE Tail(array)
      [] method = "unshift" -> args \o array
      [] method = "splice" ->
             LET start == Min(args.start, Len(array))
                 deleteCount == Min(args.deleteCount, Len(array) - start)
             IN  SubSeq(array, 1, start) \o args.items
                 \o SubSeq(array, start + deleteCount + 1, Len(array))

\* the get trap of the nested proxy at path `field`, for a method: the
\* function it returns applies the method to the array and then records one
\* entry under the path, replacing the entry an earlier call left there
ProxyCall(h, ref, field, method, args) ==
    LET base == BaseOf(h, ref)
        rec == RecordingProxyOf(h, ref)
        called == [h EXCEPT ![base].value[field] =
                                ArrayMethod(@, method, args)]
    IN  CASE method = "push" ->
                 [called EXCEPT ![rec].delta =
                      Tagged(@, "$push", field,
                             IF Len(args) = 1 THEN args[1] ELSE args)]
          [] method = "pop" ->
                 [called EXCEPT ![rec].delta = Tagged(@, "$pop", field, 1)]
          [] method = "shift" ->
                 [called EXCEPT ![rec].delta = Tagged(@, "$pop", field, -1)]
          [] method = "unshift" ->
                 [called EXCEPT ![rec].delta =
                      Tagged(@, "$prepend", field, args)]
          [] method = "splice" ->
                 [called EXCEPT ![rec].delta =
                      Tagged(@, "$splice", field, args)]

\* proxy.getDelta(): the delta of the proxy asked, not of the proxy it wraps
getDelta(h, ref) == h[ref].delta

Allocate(h, object) == Append(h, object)
NewRef(h) == Len(h) + 1

(* ------------------------------- merge -------------------------------- *)

\* the entries of one tag of a delta
TagOf(delta, tag) == IF tag \in DOMAIN delta THEN delta[tag] ELSE EmptyMap

\* "Apply $set operations", for paths of one part
ApplySet(result, set) ==
    [f \in DOMAIN result |-> IF f \in DOMAIN set THEN set[f] ELSE result[f]]

\* "Apply $unset operations": delete current[path] for every true entry
ApplyUnset(result, unset) ==
    [f \in DOMAIN result |->
        IF f \in DOMAIN unset /\ unset[f] = "true" THEN Undefined
        ELSE result[f]]

\* one block of "Apply array operations": every entry of the tag applied to
\* the array found under its path
ApplyArrayTag(result, entries, method) ==
    [f \in DOMAIN result |->
        IF f \in DOMAIN entries
        THEN CASE method = "push" -> Append(result[f], entries[f])
               [] method = "pop" ->
                      ArrayMethod(result[f],
                                  IF entries[f] > 0 THEN "pop" ELSE "shift",
                                  << >>)
               [] OTHER -> ArrayMethod(result[f], method, entries[f])
        ELSE result[f]]

\* Array.isArray(result), where result is the object literal { ...target }:
\* spreading into an object literal makes a plain object whatever target is
SpreadIsArray == FALSE

\* merge(target, delta)
merge(target, delta) ==
    LET result == target
        set == ApplySet(result, TagOf(delta, "$set"))
        unset == ApplyUnset(set, TagOf(delta, "$unset"))
    IN  IF SpreadIsArray
        THEN ApplyArrayTag(
                 ApplyArrayTag(
                     ApplyArrayTag(
                         ApplyArrayTag(
                             ApplyArrayTag(unset, TagOf(delta, "$push"),
                                           "push"),
                             TagOf(delta, "$append"), "append"),
                         TagOf(delta, "$prepend"), "unshift"),
                     TagOf(delta, "$pop"), "pop"),
                 TagOf(delta, "$splice"), "splice")
        ELSE unset

(* --------------------------- sync reconciler -------------------------- *)

\* the values a change message may carry; Undefined marks a field the message
\* does not have
SyncValues ==
    { [title |-> "a", count |-> Undefined],
      [title |-> "b", count |-> Undefined],
      [title |-> Undefined, count |-> "b"] }

ChangeMessages ==
    [key : Keys, operation : {"insert", "update"}, value : SyncValues,
     offset : Offsets]
    \cup [key : Keys, operation : {"delete"},
          value : {[title |-> "a", count |-> Undefined]}, offset : Offsets]

\* Array.prototype.sort((a, b) => a.offset - b.offset): stable
RECURSIVE InsertByOffset(_, _)
InsertByOffset(sorted, m) ==
    IF sorted = << >> THEN <<m>>
    ELSE IF Head(sorted).offset <= m.offset
         THEN <<Head(sorted)>> \o InsertByOffset(Tail(sorted), m)
         ELSE <<m>> \o sorted

\* the buffer taken as it is, unsorted
ArrivalOrder(changes) == changes

RECURSIVE SortByOffset(_)
SortByOffset(changes) ==
    IF changes = << >> THEN << >>
    ELSE InsertByOffset(SortByOffset(SubSeq(changes, 1, Len(changes) - 1)),
                        changes[Len(changes)])

\* the message's value in place of the existing record
MessageValue(existing, value) == value

\* { ...existingItem } with the message's fields written over it
MergedValue(existing, value) ==
    [f \in Fields |-> IF value[f] # Undefined THEN value[f] ELSE existing[f]]

\* existingProxy[key] = value for every field of the message
RECURSIVE MirrorOnProxy(_, _, _, _)
MirrorOnProxy(h, proxy, value, fields) ==
    IF fields = {} THEN h
    ELSE LET f == CHOOSE x \in fields : TRUE
             h2 == IF value[f] # Undefined THEN ProxySet(h, proxy, f, value[f])
                   ELSE h
         IN  MirrorOnProxy(h2, proxy, value, fields \ {f})

\* a turn of the loop whose insert takes a new tracking id even for a key
\* that is mapped
ApplyChangeNewId(acc, pending, change) ==
    LET mapped == change.key \in DOMAIN acc.syncKeyToTrackingId
        existingTrackingId == acc.syncKeyToTrackingId[change.key]
        hasItem == mapped /\ existingTrackingId \in DOMAIN acc.items
        trackingId == IF mapped /\ change.operation # "insert"
                      THEN existingTrackingId ELSE acc.nextTrackingId
    IN  CASE change.operation = "insert" ->
               [acc EXCEPT
                  !.heap = Allocate(@, PlainObject(trackingId, change.value)),
                  !.items = MapSet(@, trackingId, NewRef(acc.heap)),
                  !.syncKeyToTrackingId = MapSet(@, change.key, trackingId),
                  !.nextTrackingId = @ + 1]
          [] change.operation = "update" ->
               IF hasItem
               THEN LET existingItem == acc.items[existingTrackingId]
                        updatedItem ==
                            PlainObject(TrackingIdOf(acc.heap, existingItem),
                                MergedValue(ValueOf(acc.heap, existingItem),
                                            change.value))
                        h2 == Allocate(acc.heap, updatedItem)
                    IN  [acc EXCEPT
                           !.items = MapSet(@, trackingId, NewRef(acc.heap)),
                           !.heap = IF trackingId \in DOMAIN pending
                                    THEN MirrorOnProxy(h2, pending[trackingId],
                                                       change.value, Fields)
                                    ELSE h2]
               ELSE acc
          [] change.operation = "delete" ->
               IF mapped
               THEN [acc EXCEPT
                       !.items = MapDelete(@, existingTrackingId),
                       !.syncKeyToTrackingId = MapDelete(@, change.key)]
               ELSE acc

\* one turn of the loop of applyPendingChanges; acc holds newItems,
\* newSyncKeyToTrackingId, the heap and the next tracking id
ApplyChange(acc, pending, change) ==
    LET mapped == change.key \in DOMAIN acc.syncKeyToTrackingId
        existingTrackingId == acc.syncKeyToTrackingId[change.key]
        hasItem == mapped /\ existingTrackingId \in DOMAIN acc.items
        trackingId == IF mapped THEN existingTrackingId ELSE acc.nextTrackingId
    IN  CASE change.operation = "insert" ->
               [acc EXCEPT
                  !.heap = Allocate(@, PlainObject(trackingId, change.value)),
                  !.items = MapSet(@, trackingId, NewRef(acc.heap)),
                  !.syncKeyToTrackingId = MapSet(@, change.key, trackingId),
                  !.nextTrackingId = IF mapped THEN @ ELSE @ + 1]
          [] change.operation = "update" ->
               IF hasItem
               THEN LET existingItem == acc.items[existingTrackingId]
                        updatedItem ==
                            PlainObject(TrackingIdOf(acc.heap, existingItem),
                                MergedValue(ValueOf(acc.heap, existingItem),
                                            change.value))
                        h2 == Allocate(acc.heap, updatedItem)
                    IN  [acc EXCEPT
                           !.items = MapSet(@, trackingId, NewRef(acc.heap)),
                           !.heap = IF trackingId \in DOMAIN pending
                                    THEN MirrorOnProxy(h2, pending[trackingId],
                                                       change.value, Fields)
                                    ELSE h2]
               ELSE acc
          [] change.operation = "delete" ->
               IF mapped
               THEN [acc EXCEPT
                       !.items = MapDelete(@, existingTrackingId),
                       !.syncKeyToTrackingId = MapDelete(@, change.key)]
               ELSE acc

RECURSIVE ApplyChanges(_, _, _)
ApplyChanges(acc, pending, changes) ==
    IF changes = << >> THEN acc
    ELSE ApplyChanges(ApplyChange(acc, pending, Head(changes)), pending,
                      Tail(changes))

\* the early return of applyPendingChanges
DrainAllowed(w) ==
    /\ w.transactionActors = {}
    /\ w.batchTransaction.actor = Null
    /\ w.isUpToDate

\* a drain that stops after the first change of the sorted buffer
applyFirstChange(w) ==
    IF ~DrainAllowed(w) THEN w
    ELSE LET changes == SortByOffset(w.pendingSyncChanges)
             acc == ApplyChanges(
                        [items |-> w.items,
                         syncKeyToTrackingId |-> w.syncKeyToTrackingId,
                         heap |-> w.heap,
                         nextTrackingId |-> w.nextTrackingId],
                        w.pendingItems, SubSeq(changes, 1, 1))
         IN  [w EXCEPT !.items = acc.items,
                       !.syncKeyToTrackingId = acc.syncKeyToTrackingId,
                       !.heap = acc.heap,
                       !.nextTrackingId = acc.nextTrackingId,
                       !.pendingSyncChanges = << >>,
                       !.drained = w.pendingSyncChanges]

\* Collection.applyPendingChanges, with the MUTATE {synced} event it sends
applyPendingChanges(w) ==
    IF ~DrainAllowed(w) THEN w
    ELSE LET changes == SortByOffset(w.pendingSyncChanges)
             acc == ApplyChanges(
                        [items |-> w.items,
                         syncKeyToTrackingId |-> w.syncKeyToTrackingId,
                         heap |-> w.heap,
                         nextTrackingId |-> w.nextTrackingId],
                        w.pendingItems, changes)
         IN  [w EXCEPT !.items = acc.items,
                       !.syncKeyToTrackingId = acc.syncKeyToTrackingId,
                       !.heap = acc.heap,
                       !.nextTrackingId = acc.nextTrackingId,
                       !.pendingSyncChanges = << >>,
                       !.drained = w.pendingSyncChanges]

\* the function given to actor.subscribe: it runs after every event the
\* collection actor has processed
Subscriber(w) ==
    IF /\ Len(w.pendingSyncChanges) > 0
       /\ w.transactionActors = {}
       /\ w.batchTransaction.actor = Null
       /\ w.isUpToDate
    THEN applyPendingChanges(w)
    ELSE w

(* ----------------------- settlement of a transaction ------------------ *)

\* "Update items": newItems after the loop over event.changes.  The item of a
\* delete event is `{}`, whose __tracking_id is undefined: Map.delete finds
\* nothing under that key
RECURSIVE UpdateItems(_, _, _)
UpdateItems(h, newItems, changes) ==
    IF changes = << >> THEN newItems
    ELSE LET change == Head(changes)
             next ==
                 IF change.item = EmptyObject THEN newItems
                 ELSE IF change.type = "delete"
                      THEN MapDelete(newItems, TrackingIdOf(h, change.item))
                      ELSE MapSet(newItems, TrackingIdOf(h, change.item),
                                  change.item)
         IN  UpdateItems(h, next, Tail(changes))

\* "Remove any lockedItems associated with this transaction"
ReleaseLocks(locks, transactionId) ==
    [t \in {x \in DOMAIN locks :
                locks[x] # transactionId /\ locks[x] # BatchOwner}
        |-> locks[t]]

\* the assign action of TRANSACTION_COMPLETED
SettleAssign(w, transactionId, changes) ==
    LET settled ==
            [w EXCEPT
               !.items = UpdateItems(w.heap, w.items, changes),
               !.lockedItems = ReleaseLocks(w.lockedItems, transactionId),
               !.transactionActors = @ \ {transactionId}]
    IN  IF transactionId = w.batchTransaction.id
        THEN [settled EXCEPT
                !.batchTransaction =
                    [actor |-> Null, id |-> Undefined,
                     pendingMutations |-> << >>, batchScheduled |-> "false"],
                !.pendingItems = EmptyMap]
        ELSE settled

\* the change whose getDelta call throws: `{}` has no getDelta method
HasNoGetDelta(h, item) == item = EmptyObject \/ h[item].kind # "proxy"

\* the mutations handed to onMutation: the first change of every tracking id
RECURSIVE Mutations(_, _, _)
Mutations(h, changes, seen) ==
    IF changes = << >> THEN << >>
    ELSE LET change == Head(changes)
             id == TrackingIdOf(h, change.item)
         IN  IF id \in seen THEN Mutations(h, Tail(changes), seen)
             ELSE <<[operation |-> change.type,
                     trackingId |-> id,
                     value |-> ValueOf(h, change.item),
                     delta |-> getDelta(h, change.item)]>>
                  \o Mutations(h, Tail(changes), seen \cup {id})

\* the second action of TRANSACTION_COMPLETED throws a TypeError when a
\* change's item has no getDelta
NotifyThrows(h, status, changes) ==
    /\ status # "rolledback"
    /\ \E i \in 1..Len(changes) : HasNoGetDelta(h, changes[i].item)

\* what a call of the onMutation handler may do: return a promise that
\* resolves, return one that rejects, or throw before it returns one
HandlerOutcomes == {"resolves", "rejects", "throws"}

\* context.onMutation?.(mutations).catch(...): the rejection of the promise
\* is caught and logged, an exception thrown by the call itself is not
HandlerThrows(w, status) ==
    /\ status # "rolledback"
    /\ w.onMutation = "throws"

\* the collection actor processes TRANSACTION_COMPLETED.  An action that
\* throws makes the transition fail as a whole: xstate stops the actor and
\* the snapshot keeps the context it had before the event
TRANSACTION_COMPLETED(w, transactionId, status, changes) ==
    IF w.stopped THEN w
    ELSE IF NotifyThrows(w.heap, status, changes)
    THEN [w EXCEPT !.stopped = TRUE]
    ELSE IF HandlerThrows(w, status)
    THEN [w EXCEPT !.stopped = TRUE,
                   !.onMutationCalls =
                       Append(@, Mutations(w.heap, changes, {}))]
    ELSE LET settled == SettleAssign(w, transactionId, changes)
             notified ==
                 IF status = "rolledback" THEN settled
                 ELSE [settled EXCEPT
                         !.onMutationCalls =
                             Append(@, Mutations(w.heap, changes, {}))]
         IN  Subscriber(notified)

(* ------------------------- transaction machine ------------------------ *)

NewTransactionState == [state |-> "began", operations |-> << >>]

\* insert / update / delete received in `began`: addOperation.  `target` is
\* the tracking id of the item the operation is about, which the operation
\* itself does not carry (the item of a delete is `{}`)
addOperation(w, tx, type, item, target) ==
    IF w.txs[tx].state = "began"
    THEN [w EXCEPT !.txs[tx].operations =
                       Append(@, [type |-> type, item |-> item,
                                  target |-> target])]
    ELSE w

\* the operation list mapped last operation first
ChangesReversed(operations) ==
    [i \in DOMAIN operations |->
        [type |-> operations[Len(operations) + 1 - i].type,
         item |-> operations[Len(operations) + 1 - i].item]]

\* context.operations.map((op) => ({ type: op.type, item: op.item }))
Changes(operations) ==
    [i \in DOMAIN operations |->
        [type |-> operations[i].type, item |-> operations[i].item]]

\* COMMIT: began -> committing, and handleCommit sends TRANSACTION_COMPLETED
\* with the operation list to the parent; in any other state COMMIT is ignored
handleCommit(w, tx) ==
    TRANSACTION_COMPLETED(
        [w EXCEPT !.completedEvents =
                      Append(@, [transactionId |-> tx, status |-> "committed",
                                 changes |-> Changes(w.txs[tx].operations)])],
        tx, "committed", Changes(w.txs[tx].operations))

\* a COMMIT transition that every state of the machine has
COMMITInEveryState(w, tx) ==
    handleCommit([w EXCEPT !.txs[tx].state = "committing"], tx)

COMMIT(w, tx) ==
    IF w.txs[tx].state = "began"
    THEN handleCommit([w EXCEPT !.txs[tx].state = "committing"], tx)
    ELSE w

\* ROLLBACK: began -> rollingBack; the transition has only log actions
ROLLBACK(w, tx) ==
    IF w.txs[tx].state = "began"
    THEN [w EXCEPT !.txs[tx].state = "rollingBack"]
    ELSE w

\* new Transaction({ parent }): the machine starts in began and the
\* constructor sends REGISTER_TRANSACTION to the parent
REGISTER_TRANSACTION(w, tx) ==
    IF w.stopped THEN w
    ELSE Subscriber([w EXCEPT !.transactionActors = @ \cup {tx}])

(* ------------------------ the MUTATE event ---------------------------- *)

\* trackPendingItem
trackPendingItem(w, operation, item, trackingId) ==
    IF operation = "delete"
    THEN [w EXCEPT !.pendingItems = MapDelete(@, trackingId)]
    ELSE [w EXCEPT !.pendingItems = MapSet(@, trackingId, item)]

\* forwardToTransaction
forwardToTransaction(w, operation, item, trackingId, tx) ==
    addOperation(w, tx, operation, item, trackingId)

\* createBatchTransaction: a new Transaction when batchTransaction.actor is
\* null, put in transactionActors and in batchTransaction
BatchesCreated(w) == Cardinality(DOMAIN w.txs \ TxIds)

createBatchTransaction(w) ==
    IF w.batchTransaction.actor = Null
    THEN LET id == BatchTxIds[BatchesCreated(w) + 1]
         IN  [w EXCEPT
                !.txs = MapSet(@, id, NewTransactionState),
                !.transactionActors = @ \cup {id},
                !.batchTransaction =
                    [@ EXCEPT !.actor = id, !.id = id]]
    ELSE w

\* queueMutation: the assigned batchTransaction has two fields only, so id
\* and batchScheduled are undefined afterwards
queueMutation(w, operation, item, trackingId) ==
    [w EXCEPT
       !.batchTransaction =
           [actor |-> w.batchTransaction.actor,
            id |-> Undefined,
            pendingMutations |->
                Append(w.batchTransaction.pendingMutations,
                       [operation |-> operation, item |-> item,
                        trackingId |-> trackingId]),
            batchScheduled |-> Undefined]]

\* scheduleBatchIfNeeded: Promise.resolve().then(send PROCESS_BATCH)
scheduleBatchIfNeeded(w) ==
    IF /\ w.batchTransaction.actor # Null
       /\ w.batchTransaction.batchScheduled \in {"false", Undefined}
    THEN [w EXCEPT !.batchTransaction.batchScheduled = "true",
                   !.microtasks = @ + 1]
    ELSE w

\* the collection actor processes MUTATE; tx is Null when the call named no
\* transaction.  The batch transaction's constructor sends
\* REGISTER_TRANSACTION, which is processed after the MUTATE event
MUTATE(w, operation, item, trackingId, tx) ==
    IF w.stopped THEN w
    ELSE IF tx # Null
    THEN Subscriber(forwardToTransaction(
             trackPendingItem(w, operation, item, trackingId),
             operation, item, trackingId, tx))
    ELSE LET created == createBatchTransaction(w)
             mutation == [operation |-> operation, trackingId |-> trackingId]
             queued ==
                 [scheduleBatchIfNeeded(
                      queueMutation(created, operation, item, trackingId))
                     EXCEPT !.turn = IF w.batchTransaction.actor = Null
                                     THEN {mutation}
                                     ELSE @ \cup {mutation}]
         IN  IF w.batchTransaction.actor = Null
             THEN REGISTER_TRANSACTION(Subscriber(queued),
                                       created.batchTransaction.actor)
             ELSE Subscriber(queued)

(* ---------------------- the PROCESS_BATCH event ----------------------- *)

RECURSIVE ForwardAll(_, _, _)
ForwardAll(w, tx, mutations) ==
    IF mutations = << >> THEN w
    ELSE ForwardAll(addOperation(w, tx, Head(mutations).operation,
                                 Head(mutations).item,
                                 Head(mutations).trackingId),
                    tx, Tail(mutations))

\* processPendingMutations: every queued mutation and then COMMIT go to the
\* batch transaction; its TRANSACTION_COMPLETED is processed after this event
PROCESS_BATCH(w) ==
    IF w.stopped THEN w
    ELSE IF w.batchTransaction.actor = Null THEN Subscriber(w)
    ELSE LET tx == w.batchTransaction.actor
             forwarded ==
                 ForwardAll(w, tx, w.batchTransaction.pendingMutations)
             assigned ==
                 [forwarded EXCEPT !.batchTransaction.actor = Null,
                                   !.batchTransaction.batchScheduled = "false"]
         IN  COMMIT(Subscriber(assigned), tx)

(* -------------------------- public interface -------------------------- *)

\* what the application may pass: a transaction it created (in any state) or
\* none, any tracking id handed out so far, a value to insert, an updater
\* `item.title = value`
TransactionOptions(w) == {Null} \cup (DOMAIN w.txs \cap TxIds)
KnownTrackingIds(w) == 1..(w.nextTrackingId - 1)
InsertValues ==
    { [title |-> "a", count |-> Undefined],
      [title |-> Bad, count |-> Undefined] }
Updaters == [field : {"title"}, value : {"b", Bad}]

\* transactionId in insert / update
TransactionIdOf(tx) == IF tx = Null THEN BatchOwner ELSE tx

\* isItemLocked without its last line, the comparison with the lock's owner
isItemLockedWithoutOwner(w, trackingId, transactionId) ==
    /\ trackingId \in DOMAIN w.lockedItems
    /\ transactionId = Undefined

\* Collection.isItemLocked
isItemLocked(w, trackingId, transactionId) ==
    /\ trackingId \in DOMAIN w.lockedItems
    /\ w.lockedItems[trackingId] # transactionId

\* Collection.lockItem, when it does not throw
lockItem(w, trackingId, transactionId) ==
    [w EXCEPT !.lockedItems = MapSet(@, trackingId, transactionId)]

\* Collection.createTrackedProxy
createTrackedProxy(w, item, trackingId) ==
    [w EXCEPT !.heap = Allocate(@, createMutationProxy(item)),
              !.pendingItems = MapSet(@, trackingId, NewRef(w.heap))]

\* a batched mutation may need a new batch transaction id
BatchIdAvailable(w, tx) ==
    tx # Null \/ BatchesCreated(w) < Len(BatchTxIds)

Called(call, tx, trackingId, result) ==
    /\ callsLeft' = callsLeft - 1
    /\ last' = [call |-> call, tx |-> tx, trackingId |-> trackingId,
                result |-> result]

\* new Transaction({ parent: collection.actor })
NewTransaction ==
    /\ callsLeft > 0
    /\ Cardinality(DOMAIN txs \cap TxIds) < Len(ExplicitTxIds)
    /\ LET id == ExplicitTxIds[Cardinality(DOMAIN txs \cap TxIds) + 1]
       IN  /\ Becomes(REGISTER_TRANSACTION(
                  [World EXCEPT !.txs = MapSet(@, id, NewTransactionState)],
                  id))
           /\ Called("new Transaction", id, 0, "ok")

\* an insert that validates the item after tracking, locking and sending it
insertThenValidate(w, value, tx) ==
    LET trackingId == w.nextTrackingId
        itemWithTracking == NewRef(w.heap)
        tracked ==
            createTrackedProxy(
                [w EXCEPT !.heap = Allocate(@, PlainObject(trackingId, value)),
                          !.nextTrackingId = @ + 1],
                itemWithTracking, trackingId)
        proxy == tracked.pendingItems[trackingId]
        sent == MUTATE(lockItem(tracked, trackingId, TransactionIdOf(tx)),
                       "insert", proxy, trackingId, tx)
    IN  [result |-> IF SchemaValid(value) THEN "ok" ELSE "schema",
         world |-> sent]

\* Collection.insert(item, { transaction }): the outcome and the state it
\* leaves.  The item is validated "before doing anything else"
insert(w, value, tx) ==
    IF ~SchemaValid(value)
    THEN [result |-> "schema", world |-> w]
    ELSE LET trackingId == w.nextTrackingId
             itemWithTracking == NewRef(w.heap)
             tracked ==
                 createTrackedProxy(
                     [w EXCEPT
                        !.heap = Allocate(@, PlainObject(trackingId, value)),
                        !.nextTrackingId = @ + 1],
                     itemWithTracking, trackingId)
             proxy == tracked.pendingItems[trackingId]
         IN  [result |-> "ok",
              world |-> MUTATE(lockItem(tracked, trackingId,
                                        TransactionIdOf(tx)),
                               "insert", proxy, trackingId, tx)]

\* the records of items, by tracking id
Records(w) == [t \in DOMAIN w.items |-> ValueOf(w.heap, w.items[t])]

\* the history of a mutation call made under an explicit transaction: the
\* first such call of a transaction finds items as `before` has it
FirstCall(before, after, tx) ==
    IF tx = Null \/ tx \in DOMAIN before.recordsBefore THEN after
    ELSE [after EXCEPT !.recordsBefore = MapSet(@, tx, Records(before))]

Insert(value, tx) ==
    /\ callsLeft > 0
    /\ BatchIdAvailable(World, tx)
    /\ LET outcome == insert(World, value, tx)
       IN  /\ Becomes(FirstCall(World, outcome.world, tx))
           /\ Called("insert", TransactionIdOf(tx),
                     IF outcome.result = "ok" THEN nextTrackingId ELSE 0,
                     outcome.result)

\* an update whose validation runs the updater on the wrapper itself, not on
\* a clone of it
updateWithoutClone(w, trackingId, updater, tx) ==
    IF isItemLocked(w, trackingId, TransactionIdOf(tx))
    THEN [result |-> "item-locked", world |-> w]
    ELSE LET locked == lockItem(w, trackingId, TransactionIdOf(tx))
         IN  IF /\ trackingId \notin DOMAIN w.items
                /\ trackingId \notin DOMAIN w.pendingItems
             THEN [result |-> "item-not-found", world |-> locked]
             ELSE LET existingItem ==
                          IF trackingId \in DOMAIN w.items
                          THEN w.items[trackingId]
                          ELSE w.pendingItems[trackingId]
                      tracked ==
                          IF trackingId \in DOMAIN w.pendingItems THEN locked
                          ELSE createTrackedProxy(locked, existingItem,
                                                  trackingId)
                      proxy == tracked.pendingItems[trackingId]
                      validated ==
                          [ValueOf(tracked.heap, proxy)
                              EXCEPT ![updater.field] = updater.value]
                  IN  IF ~SchemaValid(validated)
                      THEN [result |-> "schema",
                            world |->
                              [tracked EXCEPT
                                 !.heap = ProxySet(@, proxy, updater.field,
                                                   updater.value)]]
                      ELSE [result |-> "ok",
                            world |->
                              MUTATE([tracked EXCEPT
                                        !.heap = ProxySet(@, proxy,
                                                     updater.field,
                                                     updater.value)],
                                     "update", proxy, trackingId, tx)]

\* Collection.update(item, updater, { transaction }): the outcome and the
\* state it leaves
update(w, trackingId, updater, tx) ==
    IF isItemLocked(w, trackingId, TransactionIdOf(tx))
    THEN [result |-> "item-locked", world |-> w]
    ELSE LET locked == lockItem(w, trackingId, TransactionIdOf(tx))
         IN  IF /\ trackingId \notin DOMAIN w.items
                /\ trackingId \notin DOMAIN w.pendingItems
             THEN [result |-> "item-not-found", world |-> locked]
             ELSE LET existingItem ==
                          IF trackingId \in DOMAIN w.items
                          THEN w.items[trackingId]
                          ELSE w.pendingItems[trackingId]
                      tracked ==
                          IF trackingId \in DOMAIN w.pendingItems THEN locked
                          ELSE createTrackedProxy(locked, existingItem,
                                                  trackingId)
                      proxy == tracked.pendingItems[trackingId]
                      validated ==
                          [ValueOf(tracked.heap, proxy)
                              EXCEPT ![updater.field] = updater.value]
                  IN  IF ~SchemaValid(validated)
                      THEN [result |-> "schema", world |-> tracked]
                      ELSE [result |-> "ok",
                            world |->
                              MUTATE([tracked EXCEPT
                                        !.heap = ProxySet(@, proxy,
                                                     updater.field,
                                                     updater.value)],
                                     "update", proxy, trackingId, tx)]

\* the paths the updaters of transaction id have written so far
WrittenBy(w, id) == IF id \in DOMAIN w.localWrites THEN w.localWrites[id] ELSE {}

\* the history of an update that returned: its updater wrote updater.field
\* of the item if the value it assigned differs from the one it found, and
\* the write belongs to the transaction the mutation went to
RecordWrite(before, after, trackingId, updater, tx) ==
    LET id == IF tx = Null THEN after.batchTransaction.actor
              ELSE TransactionIdOf(tx)
        found == IF trackingId \in DOMAIN before.pendingItems
                 THEN ValueOf(before.heap, before.pendingItems[trackingId])
                 ELSE ValueOf(before.heap, before.items[trackingId])
    IN  IF found[updater.field] = updater.value THEN after
        ELSE [after EXCEPT
                !.localWrites = MapSet(@, id,
                                WrittenBy(after, id)
                                  \cup {[trackingId |-> trackingId,
                                         path |-> updater.field]})]

Update(trackingId, updater, tx) ==
    /\ callsLeft > 0
    /\ BatchIdAvailable(World, tx)
    /\ LET outcome == update(World, trackingId, updater, tx)
       IN  /\ Becomes(FirstCall(World,
                               IF outcome.result = "ok"
                               THEN RecordWrite(World, outcome.world,
                                                trackingId, updater, tx)
                               ELSE outcome.world,
                               tx))
           /\ Called("update", TransactionIdOf(tx), trackingId, outcome.result)

\* Collection.remove(item, { transaction })
remove(w, trackingId, tx) ==
    IF /\ trackingId \notin DOMAIN w.items
       /\ trackingId \notin DOMAIN w.pendingItems
    THEN [result |-> "item-not-found", world |-> w]
    ELSE [result |-> "ok",
          world |-> MUTATE(w, "delete", EmptyObject, trackingId, tx)]

Remove(trackingId, tx) ==
    /\ callsLeft > 0
    /\ BatchIdAvailable(World, tx)
    /\ LET outcome == remove(World, trackingId, tx)
       IN  /\ Becomes(FirstCall(World, outcome.world, tx))
           /\ Called("remove", TransactionIdOf(tx), trackingId, outcome.result)

\* Collection.getItems(): the tracking ids of the records it returns, one for
\* every key of items or of pendingItems
getItems(w) == DOMAIN w.items \cup DOMAIN w.pendingItems

\* Transaction.commit() and Transaction.rollback()
Commit(tx) ==
    /\ callsLeft > 0
    /\ Becomes(COMMIT(World, tx))
    /\ Called("commit", tx, 0, "ok")

Rollback(tx) ==
    /\ callsLeft > 0
    /\ Becomes(ROLLBACK(World, tx))
    /\ Called("rollback", tx, 0, "ok")

\* Transaction.insert(item), Transaction.update(item) and
\* Transaction.delete(item), called by the application itself: outside began
\* they throw a TransactionStateError whose message names the current state
TransactionStateError(state) ==
    IF state = "committing" THEN "transaction-state: committing"
    ELSE "transaction-state: rollingBack"

\* the items the application may hand to a transaction: a wrapper it holds,
\* or an object of its own without tracking id
OwnItems(w) == {EmptyObject} \cup {w.pendingItems[t] : t \in DOMAIN w.pendingItems}

TargetOf(w, item) ==
    IF item = EmptyObject THEN 0 ELSE TrackingIdOf(w.heap, item)

TransactionMethod(type) ==
    CASE type = "insert" -> "Transaction.insert"
      [] type = "update" -> "Transaction.update"
      [] type = "delete" -> "Transaction.delete"

\* the three methods without their test of this.state.value
TransactionOperationUnguarded(w, tx, type, item) ==
    [result |-> "ok",
     world |-> addOperation(w, tx, type, item, TargetOf(w, item))]

TransactionOperation(w, tx, type, item) ==
    IF w.txs[tx].state = "began"
    THEN [result |-> "ok",
          world |-> addOperation(w, tx, type, item, TargetOf(w, item))]
    ELSE [result |-> TransactionStateError(w.txs[tx].state), world |-> w]

TransactionCall(type, item, tx) ==
    /\ callsLeft > 0
    /\ LET outcome == TransactionOperation(World, tx, type, item)
       IN  /\ Becomes(outcome.world)
           /\ Called(TransactionMethod(type), tx, 0, outcome.result)

\* the handler given to syncEngine.subscribe
ACCUMULATE_SYNC_CHANGE(w, message) ==
    IF w.stopped THEN w
    ELSE Subscriber([w EXCEPT !.pendingSyncChanges = Append(@, message)])

MARK_UP_TO_DATE(w) ==
    IF w.stopped THEN w
    ELSE Subscriber([w EXCEPT !.isUpToDate = TRUE])

BufferedOffsets == {pendingSyncChanges[i].offset : i \in DOMAIN pendingSyncChanges}

SyncChange(message) ==
    /\ callsLeft > 0
    /\ message.offset \notin BufferedOffsets
    /\ Becomes(ACCUMULATE_SYNC_CHANGE(World, message))
    /\ Called("sync change", Null, 0, "ok")

SyncUpToDate ==
    /\ callsLeft > 0
    /\ Becomes(MARK_UP_TO_DATE(World))
    /\ Called("sync up-to-date", Null, 0, "ok")

\* the microtask queued by scheduleBatchIfNeeded runs
ProcessBatch ==
    /\ microtasks > 0
    /\ Becomes([PROCESS_BATCH(World) EXCEPT !.microtasks = microtasks - 1])
    /\ callsLeft' = callsLeft
    /\ last' = [call |-> "PROCESS_BATCH", tx |-> Null, trackingId |-> 0,
                result |-> "ok"]

(* ---------------------------- delta helpers --------------------------- *)

\* a DeltaOperation is an object whose tags refer to objects of their own,
\* one per tag, that hold the entries by path
DeltaObject(tags) == [kind |-> "delta", tags |-> tags]
PathsObject(entries) == [kind |-> "paths", entries |-> entries]

\* { ...values, ...base }: the entries of both, those of base on top
SpreadUnder(base, values) ==
    [path \in DOMAIN base \cup DOMAIN values |->
        IF path \in DOMAIN base THEN base[path] ELSE values[path]]

\* { ...base, ...values }: the entries of both, those of values on top
SpreadOver(base, values) ==
    [path \in DOMAIN base \cup DOMAIN values |->
        IF path \in DOMAIN values THEN values[path] ELSE base[path]]

\* one turn of the loop of mergeDelta over Object.entries(source): the tag
\* op of result is set to a new object when source has entries under op
RECURSIVE MergeTags(_, _, _, _)
MergeTags(h, result, source, ops) ==
    IF ops = {} THEN [heap |-> h, result |-> result]
    ELSE LET op == CHOOSE x \in ops : TRUE
             values == h[h[source].tags[op]].entries
             base == IF op \in DOMAIN result THEN h[result[op]].entries
                     ELSE EmptyMap
         IN  IF DOMAIN values # {}
             THEN MergeTags(Allocate(h, PathsObject(SpreadOver(base, values))),
                            MapSet(result, op, NewRef(h)), source, ops \ {op})
             ELSE MergeTags(h, result, source, ops \ {op})

\* mergeDelta(target, source): the heap with the object it returns, which is
\* the last one allocated
mergeDelta(h, target, source) ==
    LET merged == MergeTags(h, h[target].tags, source, DOMAIN h[source].tags)
    IN  Allocate(merged.heap, DeltaObject(merged.result))

\* isDeltaEmpty(delta)
isDeltaEmpty(h, delta) ==
    \A op \in DOMAIN h[delta].tags : DOMAIN h[h[delta].tags[op]].entries = {}

(* --------------------------- specification ---------------------------- *)

\* the context of a collection that has just been constructed
EmptyCollection ==
    /\ items = EmptyMap
    /\ pendingItems = EmptyMap
    /\ lockedItems = EmptyMap
    /\ transactionActors = {}
    /\ pendingSyncChanges = << >>
    /\ syncKeyToTrackingId = EmptyMap
    /\ batchTransaction =
           [actor |-> Null, id |-> InitialBatchId, pendingMutations |-> << >>,
            batchScheduled |-> "false"]
    /\ isUpToDate = FALSE
    /\ stopped = FALSE
    /\ txs = EmptyMap
    /\ nextTrackingId = 1
    /\ microtasks = 0
    /\ onMutationCalls = << >>
    /\ completedEvents = << >>
    /\ drained = << >>
    /\ turn = {}
    /\ localWrites = EmptyMap
    /\ recordsBefore = EmptyMap
    /\ last = [call |-> "constructor", tx |-> Null, trackingId |-> 0,
               result |-> "ok"]

\* a collection whose onMutation handler does its work
Constructed ==
    /\ heap = << >>
    /\ EmptyCollection
    /\ onMutation = "resolves"

Init == Constructed /\ callsLeft = MaxCalls

Next ==
    \/ NewTransaction
    \/ \E value \in InsertValues, tx \in TransactionOptions(World) :
           Insert(value, tx)
    \/ \E trackingId \in KnownTrackingIds(World), updater \in Updaters,
          tx \in TransactionOptions(World) :
           Update(trackingId, updater, tx)
    \/ \E trackingId \in KnownTrackingIds(World),
          tx \in TransactionOptions(World) :
           Remove(trackingId, tx)
    \/ \E tx \in DOMAIN txs \cap TxIds : Commit(tx)
    \/ \E tx \in DOMAIN txs \cap TxIds : Rollback(tx)
    \/ \E message \in ChangeMessages : SyncChange(message)
    \/ SyncUpToDate
    \/ ProcessBatch

Spec == Init /\ [][Next]_vars

\* longer runs of an application that works through explicit transactions
\* only and never removes or updates
LongInit == Constructed /\ callsLeft = MaxLongCalls

LongNext ==
    \/ NewTransaction
    \/ \E tx \in DOMAIN txs \cap TxIds :
           Insert([title |-> "a", count |-> Undefined], tx)
    \/ \E tx \in DOMAIN txs \cap TxIds : Commit(tx)
    \/ \E tx \in DOMAIN txs \cap TxIds : Rollback(tx)
    \/ \E message \in ChangeMessages : SyncChange(message)
    \/ SyncUpToDate

LongSpec == LongInit /\ [][LongNext]_vars

\* an application that also calls the methods of its transactions itself
TransactionNext ==
    \/ NewTransaction
    \/ \E tx \in DOMAIN txs \cap TxIds :
           Insert([title |-> "a", count |-> Undefined], tx)
    \/ \E tx \in DOMAIN txs \cap TxIds, item \in OwnItems(World),
          type \in {"insert", "update", "delete"} :
           TransactionCall(type, item, tx)
    \/ \E tx \in DOMAIN txs \cap TxIds : Commit(tx)
    \/ \E tx \in DOMAIN txs \cap TxIds : Rollback(tx)

TransactionSpec == Init /\ [][TransactionNext]_vars

\* calls made without a transaction only, and the microtask that
\* scheduleBatchIfNeeded queues with Promise.resolve().then: the event loop
\* runs every queued microtask
BatchNext ==
    \/ \E value \in InsertValues : Insert(value, Null)
    \/ \E trackingId \in KnownTrackingIds(World), updater \in Updaters :
           Update(trackingId, updater, Null)
    \/ \E trackingId \in KnownTrackingIds(World) : Remove(trackingId, Null)
    \/ ProcessBatch

\* a queued microtask runs: ProcessBatch is the one step that takes a
\* microtask off the queue
RunMicrotask == microtasks > 0 /\ microtasks' = microtasks - 1

BatchSpec == Init /\ [][BatchNext]_vars /\ WF_microtasks(RunMicrotask)

\* a collection constructed with any onMutation handler: one that does its
\* work, one whose promise rejects, one that throws
HandlerInit ==
    /\ heap = << >>
    /\ EmptyCollection
    /\ onMutation \in HandlerOutcomes
    /\ callsLeft = MaxCalls

HandlerSpec == HandlerInit /\ [][Next]_vars

\* a sync source that sends changes of two keys to an application that
\* works through explicit transactions and updates
SyncKeys == {"k1", "k2"}

SyncMessages ==
    [key : SyncKeys, operation : {"insert", "update"}, value : SyncValues,
     offset : Offsets]
    \cup [key : SyncKeys, operation : {"delete"},
          value : {[title |-> "a", count |-> Undefined]}, offset : Offsets]

SyncNext ==
    \/ \E message \in SyncMessages : SyncChange(message)
    \/ SyncUpToDate
    \/ NewTransaction
    \/ \E trackingId \in KnownTrackingIds(World), updater \in Updaters,
          tx \in DOMAIN txs \cap TxIds :
           Update(trackingId, updater, tx)
    \/ \E tx \in DOMAIN txs \cap TxIds : Commit(tx)

SyncSpec == Init /\ [][SyncNext]_vars

\* a record, a pristine copy of it kept aside, and the wrapper
\* createMutationProxy makes around the record
MergeRecords == [title : {"a", Undefined}, tags : {<< >>, <<"x">>, <<"x", "y">>}]
OriginalRef == 1
TargetRef == 2
WrapperRef == 3

MergeInit ==
    /\ \E record \in MergeRecords :
           heap = <<PlainObject(0, record), PlainObject(0, record),
                    createMutationProxy(TargetRef)>>
    /\ EmptyCollection
    /\ onMutation = "resolves"
    /\ callsLeft = MaxCalls

\* wrapper.title = value
WrapperSet(value) ==
    /\ callsLeft > 0
    /\ Becomes([World EXCEPT
                  !.heap = ProxySet(@, WrapperRef, "title", value)])
    /\ Called("set", Null, 0, "ok")

\* delete wrapper.title
WrapperDelete ==
    /\ callsLeft > 0
    /\ Becomes([World EXCEPT !.heap = ProxyDelete(@, WrapperRef, "title")])
    /\ Called("deleteProperty", Null, 0, "ok")

\* wrapper.tags.push(...), pop(), shift(), unshift(...), splice(...)
WrapperCall(method, args) ==
    /\ callsLeft > 0
    /\ Becomes([World EXCEPT
                  !.heap = ProxyCall(@, WrapperRef, "tags", method, args)])
    /\ Called(method, Null, 0, "ok")

SpliceArgs == [start : {0, 1}, deleteCount : {0, 1}, items : {<< >>, <<"z">>}]

MergeNext ==
    \/ \E value \in {"a", "b"} : WrapperSet(value)
    \/ WrapperDelete
    \/ \E args \in {<<"y">>, <<"y", "z">>} : WrapperCall("push", args)
    \/ WrapperCall("pop", << >>)
    \/ WrapperCall("shift", << >>)
    \/ \E args \in {<<"w">>} : WrapperCall("unshift", args)
    \/ \E args \in SpliceArgs : WrapperCall("splice", args)

MergeSpec == MergeInit /\ [][MergeNext]_vars

\* two deltas built by the application, with or without a tag, and calls
\* of mergeDelta on any two deltas there are
DeltaTags == {"$set", "$unset"}

EntriesOf(tag) ==
    IF tag = "$set"
    THEN UNION {[paths -> {"a", "b"}] : paths \in SUBSET {"title", "count"}}
    ELSE UNION {[paths -> {"true"}] : paths \in SUBSET {"title"}}

DeltaShapes ==
    UNION {{shape \in [tags -> EntriesOf("$set") \cup EntriesOf("$unset")] :
               \A tag \in tags : shape[tag] \in EntriesOf(tag)} :
           tags \in SUBSET DeltaTags}

\* the heap with a delta of the given shape at its end
NewDelta(h, shape) ==
    LET h1 == IF "$set" \in DOMAIN shape
              THEN Allocate(h, PathsObject(shape["$set"])) ELSE h
        h2 == IF "$unset" \in DOMAIN shape
              THEN Allocate(h1, PathsObject(shape["$unset"])) ELSE h1
    IN  Allocate(h2, DeltaObject([tag \in DOMAIN shape |->
                                     IF tag = "$set" THEN Len(h1)
                                     ELSE Len(h2)]))

DeltaRefs(h) == {ref \in DOMAIN h : h[ref].kind = "delta"}

DeltaInit ==
    /\ \E target \in DeltaShapes, source \in DeltaShapes :
           heap = NewDelta(NewDelta(<< >>, target), source)
    /\ EmptyCollection
    /\ onMutation = "resolves"
    /\ callsLeft = MaxMergeCalls

\* result = mergeDelta(target, source)
MergeDelta(target, source) ==
    /\ callsLeft > 0
    /\ Becomes([World EXCEPT !.heap = mergeDelta(@, target, source)])
    /\ callsLeft' = callsLeft - 1
    /\ last' = [call |-> "mergeDelta", target |-> target, source |-> source,
                result |-> "ok"]

DeltaNext ==
    \E target \in DeltaRefs(heap), source \in DeltaRefs(heap) :
        MergeDelta(target, source)

DeltaSpec == DeltaInit /\ [][DeltaNext]_vars

(* ------------------------------- claims ------------------------------- *)

\* a step that is a call of the public interface or a sync message
IsCall(call) == callsLeft' # callsLeft /\ last'.call = call

\* C1: collection.update of an item whose lock is owned by transaction A,
\* made under another owner B (an explicit transaction or the implicit batch
\* owner), fails with item-locked, and items, pendingItems, the lock table,
\* every operation log and every object are the same after the call as before
C1_UpdateOfLockedItemFails ==
    [][ (/\ IsCall("update")
         /\ last'.trackingId \in DOMAIN lockedItems
         /\ lockedItems[last'.trackingId] # last'.tx)
        => /\ last'.result = "item-locked"
           /\ UNCHANGED <<items, pendingItems, lockedItems, txs, heap>> ]_vars

\* an update under t2 or the batch owner has just failed on an item t1 locked
C1_Witness ==
    /\ last.call = "update"
    /\ last.result = "item-locked"
    /\ last.trackingId \in DOMAIN lockedItems
    /\ lockedItems[last.trackingId] = "t1"
    /\ last.tx # "t1"
    /\ "t1" \in DOMAIN txs
    /\ Len(txs["t1"].operations) > 0

\* C2: collection.remove of an item whose lock is owned by transaction A,
\* made under another owner B, fails with item-locked: no delete operation
\* reaches any transaction and the pending wrapper of the item stays
C2_RemoveOfLockedItemFails ==
    [][ (/\ IsCall("remove")
         /\ last'.trackingId \in DOMAIN lockedItems
         /\ lockedItems[last'.trackingId] # last'.tx)
        => /\ last'.result = "item-locked"
           /\ UNCHANGED <<txs, pendingItems>> ]_vars

\* a step in which buffered sync changes are applied to items: the buffer is
\* emptied by applyPendingChanges only
DrainStep ==
    /\ pendingSyncChanges' = << >>
    /\ \/ pendingSyncChanges # << >>
       \/ IsCall("sync change") /\ ~stopped

\* C3: in every step in which buffered sync changes are applied to items,
\* up-to-date has been received, the lock table is empty, no batch
\* transaction actor is active and the transaction registry is empty
C3_DrainOnlyWhenUnlocked ==
    [][ DrainStep
        => /\ isUpToDate'
           /\ lockedItems' = EmptyMap
           /\ batchTransaction'.actor = Null
           /\ transactionActors' = {} ]_vars

\* C4: the step that handles a sync change message only appends the message
\* to the sync buffer: items and the sync-key mapping are unchanged, also when
\* up-to-date was received earlier and no transaction is open
C4_ChangeMessageOnlyBuffers ==
    [][ (IsCall("sync change") /\ ~stopped)
        => /\ UNCHANGED <<items, syncKeyToTrackingId>>
           /\ Len(pendingSyncChanges') = Len(pendingSyncChanges) + 1 ]_vars

\* transaction tx is open: created and neither committed nor rolled back
IsOpen(tx) == tx \in DOMAIN txs /\ txs[tx].state = "began"

HoldsLock(tx) == \E t \in DOMAIN lockedItems : lockedItems[t] = tx

\* C5: an up-to-date message that arrives while an open transaction holds a
\* lock leaves items and the buffer alone; and when a transaction that holds
\* a lock commits after up-to-date, with no other transaction open and no
\* batch active, the commit step applies every buffered change
C5_CommitDrainsBuffer ==
    [][ /\ (/\ IsCall("sync up-to-date")
            /\ \E tx \in TxIds : IsOpen(tx) /\ HoldsLock(tx))
           => UNCHANGED <<items, pendingSyncChanges>>
        /\ (/\ IsCall("commit")
            /\ IsOpen(last'.tx) /\ HoldsLock(last'.tx)
            /\ isUpToDate
            /\ pendingSyncChanges # << >>
            /\ \A other \in DOMAIN txs \ {last'.tx} : ~IsOpen(other)
            /\ batchTransaction.actor = Null)
           => pendingSyncChanges' = << >> ]_vars

\* the transaction that settles in this step, if one does
SettlingTx ==
    IF IsCall("commit") THEN last'.tx
    ELSE IF last'.call = "PROCESS_BATCH" /\ callsLeft' = callsLeft
         THEN batchTransaction.actor
         ELSE Null

\* items as the drain of this step found them: after the settlement of the
\* step, if there is one
ItemsBeforeDrain ==
    IF SettlingTx \in DOMAIN txs
    THEN UpdateItems(heap, items, txs'[SettlingTx].operations)
    ELSE items

\* the changes of a set applied one by one, lowest offset first
RECURSIVE AscendingApply(_, _, _)
AscendingApply(acc, pending, changes) ==
    IF changes = {} THEN acc
    ELSE LET lowest == CHOOSE m \in changes :
                           \A other \in changes : m.offset <= other.offset
         IN  AscendingApply(ApplyChange(acc, pending, lowest), pending,
                            changes \ {lowest})

\* C6: whatever order the buffered changes arrived in, the items map, the
\* sync-key mapping and the objects after a drain are those obtained by
\* applying the buffered changes one by one in strictly ascending offset
C6_DrainInOffsetOrder ==
    [][ DrainStep
        => LET expected ==
                   AscendingApply(
                       [items |-> ItemsBeforeDrain,
                        syncKeyToTrackingId |-> syncKeyToTrackingId,
                        heap |-> heap,
                        nextTrackingId |-> nextTrackingId],
                       pendingItems',
                         {drained'[i] : i \in DOMAIN drained'})
           IN  /\ items' = expected.items
               /\ syncKeyToTrackingId' = expected.syncKeyToTrackingId
               /\ heap' = expected.heap ]_vars

\* a drain has just applied an update of offset 1 that arrived after the
\* insert of offset 2: the item holds the value of the insert
C6_Witness ==
    /\ Len(drained) = 2
    /\ pendingSyncChanges = << >>
    /\ drained[1].offset = 2 /\ drained[1].operation = "insert"
    /\ drained[1].value.title = "a"
    /\ drained[2].offset = 1 /\ drained[2].operation = "update"
    /\ drained[2].value.title = "b"
    /\ "k1" \in DOMAIN syncKeyToTrackingId
    /\ ValueOf(heap, items[syncKeyToTrackingId["k1"]]).title = "a"

\* the step in which the microtask of a batch runs and commits the batch
BatchCommitStep ==
    /\ last'.call = "PROCESS_BATCH"
    /\ callsLeft' = callsLeft
    /\ batchTransaction.actor # Null

\* every mutation queued since the batch began is an insert or an update of
\* item trackingId
TurnOnOneItem(trackingId) ==
    /\ turn # {}
    /\ \A mutation \in turn :
           /\ mutation.trackingId = trackingId
           /\ mutation.operation \in {"insert", "update"}

\* the mutation queued by the latest call made without a transaction
LatestQueued ==
    batchTransaction.pendingMutations[Len(batchTransaction.pendingMutations)]

\* C7: when the calls made without a transaction in one turn are n >= 1
\* inserts or updates of one item, the microtask that follows produces
\* exactly one onMutation call, with exactly one entry, which is for that
\* item and holds the item's value after all n calls
C7_OneCallOneEntryPerTurn ==
    [][ \A trackingId \in KnownTrackingIds(World) :
          (BatchCommitStep /\ TurnOnOneItem(trackingId))
          => /\ Len(onMutationCalls') = Len(onMutationCalls) + 1
             /\ LET mutations == onMutationCalls'[Len(onMutationCalls')]
                IN  /\ Len(mutations) = 1
                    /\ mutations[1].trackingId = trackingId
                    /\ mutations[1].value =
                           ValueOf(heap, LatestQueued.item) ]_vars

\* the owner under which the locks of transaction tx were taken
OwnerOf(tx) == IF tx \in TxIds THEN tx ELSE BatchOwner

\* item trackingId is among the items transaction tx operated on
HadLocked(tx, trackingId) ==
    \E i \in DOMAIN txs[tx].operations :
        /\ txs[tx].operations[i].item # EmptyObject
        /\ TrackingIdOf(heap, txs[tx].operations[i].item) = trackingId

\* C8: the step in which transaction T commits leaves no entry of the lock
\* table owned by T, and an update of an item T had locked, made later under
\* another transaction, is not refused because of a lock of T
C8_CommitReleasesLocks ==
    [][ /\ (SettlingTx \in DOMAIN txs /\ IsOpen(SettlingTx))
           => \A t \in DOMAIN lockedItems' :
                  lockedItems'[t] # OwnerOf(SettlingTx)
        /\ \A T \in DOMAIN txs \cap TxIds :
             (/\ IsCall("update")
              /\ txs[T].state = "committing"
              /\ HadLocked(T, last'.trackingId)
              /\ last'.tx # T
              /\ last'.trackingId \in DOMAIN lockedItems
              /\ lockedItems[last'.trackingId] = T)
             => last'.result # "item-locked" ]_vars

\* C9: a ROLLBACK received in state began moves the transaction to
\* rollingBack and sends the parent exactly one TRANSACTION_COMPLETED event,
\* with status rolledback, the transaction's id and its operation list
C9_RollbackEmitsCompleted ==
    [][ (IsCall("rollback") /\ IsOpen(last'.tx))
        => /\ txs'[last'.tx].state = "rollingBack"
           /\ completedEvents' =
                  Append(completedEvents,
                         [transactionId |-> last'.tx,
                          status |-> "rolledback",
                          changes |-> Changes(txs[last'.tx].operations)]) ]_vars

\* C10: after transaction T is rolled back no entry of the lock table is
\* owned by T and T is not in the transaction registry
C10_RollbackReleases ==
    [][ (IsCall("rollback") /\ IsOpen(last'.tx) /\ HoldsLock(last'.tx))
        => /\ \A t \in DOMAIN lockedItems' : lockedItems'[t] # last'.tx
           /\ last'.tx \notin transactionActors' ]_vars

\* a step that is a call of Transaction.insert, update or delete
IsTransactionCall ==
    /\ callsLeft' # callsLeft
    /\ last'.call \in {TransactionMethod(type) :
                           type \in {"insert", "update", "delete"}}

\* C11: Transaction.insert, update and delete called on a transaction that
\* has left began (after COMMIT or ROLLBACK) raise a transaction-state error
\* naming the current state, and leave the operation list as it was
C11_OperationOutsideBeganFails ==
    [][ (IsTransactionCall /\ ~IsOpen(last'.tx))
        => /\ last'.result = TransactionStateError(txs[last'.tx].state)
           /\ txs'[last'.tx].operations = txs[last'.tx].operations
           /\ txs'[last'.tx].state = txs[last'.tx].state ]_vars

\* a call on a rolled-back transaction that logged an operation earlier has
\* just been refused
C11_Witness ==
    /\ last.call = "Transaction.delete"
    /\ last.tx = "t1"
    /\ last.result = "transaction-state: rollingBack"
    /\ txs["t1"].state = "rollingBack"
    /\ Len(txs["t1"].operations) = 1

EventsOf(events, tx) ==
    {i \in DOMAIN events : events[i].transactionId = tx}

\* C12: a transaction that has left began keeps its state for good, and over
\* any sequence of COMMIT and ROLLBACK events it sends its parent at most one
\* TRANSACTION_COMPLETED event
C12_SettlesOnce ==
    [][ \A tx \in DOMAIN txs :
          /\ txs[tx].state # "began" => txs'[tx].state = txs[tx].state
          /\ txs'[tx].state \in {"began", "committing", "rollingBack"}
          /\ Cardinality(EventsOf(completedEvents', tx)) <= 1 ]_vars

\* a committed transaction has just received a ROLLBACK
C12_Witness ==
    /\ last.call = "rollback"
    /\ last.tx = "t1"
    /\ txs["t1"].state = "committing"
    /\ Cardinality(EventsOf(completedEvents, "t1")) = 1

\* the tracking ids of the items a list of operations is about
TrackingIdsOf(operations) ==
    {operations[i].target : i \in DOMAIN operations}

\* C13: the commit of a transaction, explicit or batch, calls onMutation
\* with as many entries as there are distinct tracking ids among the
\* transaction's operations, whatever mix of insert, update and delete they
\* are
C13_OneEntryPerTrackingId ==
    [][ (SettlingTx \in DOMAIN txs /\ IsOpen(SettlingTx))
        => /\ Len(onMutationCalls') = Len(onMutationCalls) + 1
           /\ Len(onMutationCalls'[Len(onMutationCalls')]) =
                  Cardinality(TrackingIdsOf(txs'[SettlingTx].operations)) ]_vars

\* the item of an onMutation entry has the attribute __tracking_id: the
\* entry holds the tracking id read from the item handed over
CarriesTrackingId(mutation) == mutation.trackingId \in Nat

\* C14: no item handed to onMutation carries the attribute __tracking_id
C14_NoTrackingIdInMutations ==
    \A c \in DOMAIN onMutationCalls :
        \A i \in DOMAIN onMutationCalls[c] :
            ~CarriesTrackingId(onMutationCalls[c][i])

\* C15: an insert whose item fails schema validation raises a schema error
\* (an insert that returns has stored a valid item) and changes nothing: no
\* tracking id is registered, there is no new pending item and no new lock,
\* no transaction receives an event and no batch is scheduled
C15_InvalidInsertChangesNothing ==
    [][ /\ (IsCall("insert") /\ last'.result = "schema")
           => UNCHANGED <<heap, items, pendingItems, lockedItems,
                          transactionActors, pendingSyncChanges,
                          syncKeyToTrackingId, batchTransaction, isUpToDate,
                          stopped, txs, nextTrackingId, microtasks,
                          onMutationCalls, completedEvents>>
        /\ (IsCall("insert") /\ last'.result # "schema")
           => /\ last'.trackingId \in DOMAIN pendingItems'
              /\ SchemaValid(ValueOf(heap', pendingItems'[last'.trackingId]))
      ]_vars

\* an invalid insert has just been refused in a collection that holds a
\* pending item
C15_Witness ==
    /\ last.call = "insert"
    /\ last.result = "schema"
    /\ nextTrackingId = 2
    /\ 1 \in DOMAIN pendingItems
    /\ 1 \in DOMAIN lockedItems

\* C16: an update that fails schema validation leaves the collection as it
\* was: the lock table gains no entry, pendingItems gains no wrapper, items
\* is unchanged and no operation is logged or queued
C16_InvalidUpdateChangesNothing ==
    [][ (IsCall("update") /\ last'.result = "schema")
        => UNCHANGED <<lockedItems, pendingItems, items, txs,
                       batchTransaction>> ]_vars

\* C17: an update that fails schema validation leaves the item's wrapper
\* with the field values and the delta it had before the call, and writes to
\* no object that existed before it: the updater ran on a scratch copy only
C17_InvalidUpdateKeepsWrapper ==
    [][ (IsCall("update") /\ last'.result = "schema")
        => /\ \A ref \in DOMAIN heap : heap'[ref] = heap[ref]
           /\ last'.trackingId \in DOMAIN pendingItems
              => LET wrapper == pendingItems[last'.trackingId]
                 IN  /\ pendingItems'[last'.trackingId] = wrapper
                     /\ ValueOf(heap', wrapper) = ValueOf(heap, wrapper)
                     /\ getDelta(heap', wrapper) = getDelta(heap, wrapper)
      ]_vars

\* an invalid update of an item whose wrapper recorded an earlier update has
\* just been refused
C17_Witness ==
    /\ last.call = "update"
    /\ last.result = "schema"
    /\ last.trackingId \in DOMAIN pendingItems
    /\ ValueOf(heap, pendingItems[last.trackingId]).title = "b"
    /\ getDelta(heap, pendingItems[last.trackingId]) # EmptyMap

\* the last operation of the list on item trackingId is a delete
RemovedBy(operations, trackingId) ==
    \E i \in DOMAIN operations :
        /\ operations[i].target = trackingId
        /\ operations[i].type = "delete"
        /\ \A j \in DOMAIN operations :
               (j > i) => operations[j].target # trackingId

\* C18: once a transaction that removed item i has committed, i is in
\* neither items nor pendingItems and getItems does not return it, whether i
\* had been committed before or was inserted in the same transaction
C18_CommittedRemoveDeletesItem ==
    [][ (SettlingTx \in DOMAIN txs /\ IsOpen(SettlingTx))
        => \A trackingId \in TrackingIdsOf(txs'[SettlingTx].operations) :
               RemovedBy(txs'[SettlingTx].operations, trackingId)
               => /\ trackingId \notin DOMAIN items'
                  /\ trackingId \notin DOMAIN pendingItems'
                  /\ trackingId \notin getItems(World)' ]_vars

\* the last change for key k that the drain of this step applies is a delete
DrainDeletes(k) ==
    LET changes == SortByOffset(drained')
        forKey == {i \in DOMAIN changes : changes[i].key = k}
    IN  /\ forKey # {}
        /\ \E i \in forKey :
               /\ changes[i].operation = "delete"
               /\ \A j \in forKey : j <= i

\* C19: after a drain that applies a sync delete for key k, with no later
\* insert for k in the same drain, the sync-key mapping has no entry for k,
\* items has no record of the item k stood for and pendingItems no wrapper
\* of it, so that getItems returns no record for k
C19_SyncDeleteDropsItem ==
    [][ \A k \in Keys :
          (DrainStep /\ DrainDeletes(k) /\ k \in DOMAIN syncKeyToTrackingId)
          => /\ k \notin DOMAIN syncKeyToTrackingId'
             /\ syncKeyToTrackingId[k] \notin DOMAIN items'
             /\ syncKeyToTrackingId[k] \notin DOMAIN pendingItems'
             /\ syncKeyToTrackingId[k] \notin getItems(World)' ]_vars

\* C20: whatever tracked mutations were made through a record's wrapper
\* (attribute writes and deletes, push, pop, shift, unshift and splice, also
\* several on one path), applying the wrapper's getDelta() to the original
\* record gives the record the mutations made
C20_DeltaReplaysMutations ==
    merge(ValueOf(heap, OriginalRef), getDelta(heap, WrapperRef))
        = ValueOf(heap, WrapperRef)

\* the arguments of the push call of this step: what the call added to the
\* end of the array
PushedArgs ==
    LET before == ValueOf(heap, WrapperRef).tags
        after == ValueOf(heap', WrapperRef).tags
    IN  SubSeq(after, Len(before) + 1, Len(after))

\* C21: a push call with more than one argument on the array at path P
\* records $append[P] = [x1..xn] and no $push entry; a push call with one
\* argument records $push[P] = x
C21_MultiPushRecordsAppend ==
    [][ IsCall("push")
        => LET before == getDelta(heap, WrapperRef)
               after == getDelta(heap', WrapperRef)
           IN  IF Len(PushedArgs) > 1
               THEN /\ "tags" \in DOMAIN TagOf(after, "$append")
                    /\ TagOf(after, "$append")["tags"] = PushedArgs
                    /\ DOMAIN TagOf(after, "$push")
                           = DOMAIN TagOf(before, "$push")
               ELSE /\ "tags" \in DOMAIN TagOf(after, "$push")
                    /\ TagOf(after, "$push")["tags"] = PushedArgs[1] ]_vars

\* C22: a write of a value identical to the attribute's current value adds
\* no entry to the delta: the delta after it is the delta before it, and it
\* is empty when nothing else was written
C22_SameValueWriteRecordsNothing ==
    [][ (/\ IsCall("set")
         /\ ValueOf(heap', WrapperRef).title = ValueOf(heap, WrapperRef).title)
        => getDelta(heap', WrapperRef) = getDelta(heap, WrapperRef) ]_vars

\* the first mutation made through the wrapper wrote the title the record
\* had, and the delta is empty
C22_Witness ==
    /\ last.call = "set"
    /\ callsLeft = MaxCalls - 1
    /\ ValueOf(heap, WrapperRef).title = "a"
    /\ ValueOf(heap, OriginalRef).title = "a"
    /\ getDelta(heap, WrapperRef) = EmptyMap

\* C23: the settlement of transaction T removes from the lock table the
\* entries owned by T and no other: a lock owned by another transaction, or
\* by the implicit batch when T is not the batch transaction, stays
C23_SettlementReleasesOwnLocksOnly ==
    [][ (SettlingTx \in DOMAIN txs /\ IsOpen(SettlingTx))
        => \A t \in DOMAIN lockedItems :
               IF lockedItems[t] = OwnerOf(SettlingTx)
               THEN t \notin DOMAIN lockedItems'
               ELSE /\ t \in DOMAIN lockedItems'
                    /\ lockedItems'[t] = lockedItems[t] ]_vars

\* C24: every entry of the lock table is owned by a registered explicit
\* transaction that is still in began, or by the batch owner while a batch
\* transaction exists that has not settled
C24_LocksHaveLiveOwners ==
    \A t \in DOMAIN lockedItems :
        IF lockedItems[t] = BatchOwner
        THEN batchTransaction.actor # Null
        ELSE /\ lockedItems[t] \in transactionActors
             /\ lockedItems[t] \in DOMAIN txs
             /\ IsOpen(lockedItems[t])

\* C25: once the batch transaction has settled, the list of queued mutations
\* is empty and the batch has no actor, so that the next batch starts from
\* an empty queue
C25_BatchSettlementClearsQueue ==
    [][ (BatchCommitStep /\ ~stopped)
        => /\ batchTransaction'.pendingMutations = << >>
           /\ batchTransaction'.actor = Null ]_vars

\* C26: a mutation queued on the implicit batch is forwarded to a batch
\* transaction once in the whole run: the operations a batch transaction
\* receives, and the items its onMutation call reports, are those of the
\* mutations queued since that batch began
C26_QueuedMutationForwardedOnce ==
    [][ (BatchCommitStep /\ ~stopped)
        => LET operations == txs'[batchTransaction.actor].operations
           IN  /\ \A i \in DOMAIN operations :
                      [trackingId |-> operations[i].target,
                       operation |-> operations[i].type] \in turn
               /\ Len(onMutationCalls') > Len(onMutationCalls)
                  => \A i \in DOMAIN onMutationCalls'[Len(onMutationCalls')] :
                         onMutationCalls'[Len(onMutationCalls')][i].trackingId
                             \in {mutation.trackingId : mutation \in turn}
      ]_vars

\* no entry of the lock table is owned by the implicit batch
NoBatchLock == \A t \in DOMAIN lockedItems : lockedItems[t] # BatchOwner

\* the batch transaction created last
LatestBatch == BatchTxIds[BatchesCreated(World)]

\* C27: every mutation made without a transaction is committed in the end:
\* the batch transaction that was created for it receives COMMIT at the next
\* microtask, its settlement is processed and the locks of the batch are
\* released
C27_BatchEventuallyCommits ==
    (batchTransaction.actor # Null)
    ~> (/\ batchTransaction.actor = Null
        /\ BatchesCreated(World) > 0
        /\ txs[LatestBatch].state = "committing"
        /\ LatestBatch \notin transactionActors
        /\ NoBatchLock)

\* C28: whenever no transaction is open (the registry is empty and no batch
\* is active) pendingItems is empty: the settlement of a transaction,
\* explicit or batch, removes the wrappers of the items it touched
C28_NoWrapperOutsideTransactions ==
    (transactionActors = {} /\ batchTransaction.actor = Null)
    => pendingItems = EmptyMap


\* the entries of the onMutation call this step makes
ReportedNow == onMutationCalls'[Len(onMutationCalls')]

\* C29: the delta of every entry of the onMutation call made when
\* transaction T settles holds only paths that an updater of T wrote on that
\* item: no path written under an earlier transaction, and no path written
\* by a sync drain on the wrapper
C29_DeltaHoldsOwnWritesOnly ==
    [][ (/\ SettlingTx \in DOMAIN txs
         /\ IsOpen(SettlingTx)
         /\ Len(onMutationCalls') > Len(onMutationCalls))
        => \A i \in DOMAIN ReportedNow :
             \A tag \in DOMAIN ReportedNow[i].delta :
               \A path \in DOMAIN ReportedNow[i].delta[tag] :
                  [trackingId |-> ReportedNow[i].trackingId, path |-> path]
                     \in WrittenBy(World, SettlingTx) ]_vars


\* the record items holds for trackingId is the same before and after the step
RecordKept(trackingId) ==
    /\ trackingId \in DOMAIN items'
    /\ ValueOf(heap', items'[trackingId]) = ValueOf(heap, items[trackingId])

\* C30: a step that neither settles a transaction nor drains the sync
\* buffer leaves every record of items as it was; an update of a committed
\* item in particular leaves items[trackingId] at its value before the call
C30_ItemsChangeOnlyAtSettlementOrDrain ==
    [][ /\ (SettlingTx = Null /\ ~DrainStep)
           => \A trackingId \in DOMAIN items : RecordKept(trackingId)
        /\ IsCall("update")
           => \A trackingId \in DOMAIN items : RecordKept(trackingId) ]_vars


\* the committed items transaction tx has updated: the targets of its update
\* operations that items held at its first call
UpdatedCommitted(tx) ==
    {txs[tx].operations[i].target : i \in
        {j \in DOMAIN txs[tx].operations :
            /\ txs[tx].operations[j].type = "update"
            /\ tx \in DOMAIN recordsBefore
            /\ txs[tx].operations[j].target \in DOMAIN recordsBefore[tx]}}

\* C31: when an open transaction that has updated committed items is rolled
\* back, items holds for each of them the record it held before the
\* transaction's first call
C31_RollbackRestoresItems ==
    [][ (IsCall("rollback") /\ IsOpen(last'.tx))
        => \A trackingId \in UpdatedCommitted(last'.tx) :
              /\ trackingId \in DOMAIN items'
              /\ ValueOf(heap', items'[trackingId])
                    = recordsBefore[last'.tx][trackingId] ]_vars


\* the operations transaction tx holds after the step
OperationsAfter(tx) == txs'[tx].operations

\* operation i of tx inserts or updates an item that no later operation of tx
\* deletes
WritesItem(tx, i) ==
    /\ OperationsAfter(tx)[i].type \in {"insert", "update"}
    /\ \A j \in DOMAIN OperationsAfter(tx) :
          (j > i /\ OperationsAfter(tx)[j].type = "delete")
             => OperationsAfter(tx)[j].target # OperationsAfter(tx)[i].target

\* C32: the step in which transaction T commits, when it drains no sync
\* change, leaves in items, for every item an insert or update of T touched,
\* the record of the item's wrapper as T's mutations left it
C32_CommitStoresWrapperRecord ==
    [][ (/\ SettlingTx \in DOMAIN txs
         /\ IsOpen(SettlingTx)
         /\ ~DrainStep)
        => \A i \in DOMAIN OperationsAfter(SettlingTx) :
              WritesItem(SettlingTx, i)
              => LET trackingId == OperationsAfter(SettlingTx)[i].target
                 IN  /\ trackingId \in DOMAIN items'
                     /\ ValueOf(heap', items'[trackingId])
                           = ValueOf(heap', OperationsAfter(SettlingTx)[i].item)
               ]_vars


\* the operation type a mutation call sends
OperationOf(call) == IF call = "remove" THEN "delete" ELSE call

\* C33: a collection.insert, update or remove made under an explicit
\* transaction that returns without error appends its operation to that
\* transaction's log; given a transaction that has left began, it does not
\* return without error
C33_AcceptedCallIsLogged ==
    [][ (/\ \E call \in {"insert", "update", "remove"} : IsCall(call)
         /\ last'.tx \in TxIds
         /\ last'.result = "ok")
        => /\ txs[last'.tx].state = "began"
           /\ Len(txs'[last'.tx].operations)
                 = Len(txs[last'.tx].operations) + 1
           /\ LET logged == txs'[last'.tx].operations[
                                Len(txs'[last'.tx].operations)]
              IN  /\ logged.type = OperationOf(last'.call)
                  /\ logged.target = last'.trackingId ]_vars


\* items and the sync-key mapping with the first n of the changes this step
\* drained applied, in the order applyPendingChanges takes them
DrainedTo(n) ==
    ApplyChanges([items |-> ItemsBeforeDrain,
                  syncKeyToTrackingId |-> syncKeyToTrackingId,
                  heap |-> heap,
                  nextTrackingId |-> nextTrackingId],
                 pendingItems', SubSeq(SortByOffset(drained'), 1, n))

\* the state after the step shows the first n changes applied, and no more
\* than those if the later ones change anything
Shows(n) ==
    /\ items' = DrainedTo(n).items
    /\ syncKeyToTrackingId' = DrainedTo(n).syncKeyToTrackingId

\* C34: a drain takes items and the sync-key mapping in one step from their
\* value before it to the value with every buffered change applied and
\* leaves the buffer empty; a step that is not a drain applies no buffered
\* change, so that no state shows part of a drain
C34_DrainIsAtomic ==
    [][ /\ DrainStep
           => /\ Shows(Len(drained'))
              /\ pendingSyncChanges' = << >>
              /\ drained' = pendingSyncChanges
                 \/ drained' = Append(pendingSyncChanges,
                                      drained'[Len(drained')])
        /\ ~DrainStep
           => /\ syncKeyToTrackingId' = syncKeyToTrackingId
              /\ \A i \in DOMAIN pendingSyncChanges :
                     pendingSyncChanges'[i] = pendingSyncChanges[i] ]_vars

\* an up-to-date message has just drained two buffered inserts of different
\* keys in one step
C34_Witness ==
    /\ last.call = "sync up-to-date"
    /\ pendingSyncChanges = << >>
    /\ Len(drained) = 2
    /\ drained[1].operation = "insert" /\ drained[2].operation = "insert"
    /\ drained[1].key # drained[2].key
    /\ DOMAIN syncKeyToTrackingId = {drained[1].key, drained[2].key}
    /\ Cardinality(DOMAIN items) = 2


\* the step empties the buffer, which held `found`, and applies all of it
Drains(found) ==
    /\ found # << >>
    /\ pendingSyncChanges' = << >>
    /\ drained' = found
    /\ Shows(Len(found))

\* C35: a change message that arrives is either kept in the buffer, behind
\* the changes already there, or applied at once together with them; every
\* other step leaves the buffer as it is or applies all of it and empties
\* it: no change is lost and none stays in the buffer to be applied again
C35_ChangeAppliedExactlyOnce ==
    [][ /\ IsCall("sync change")
           => \E message \in SyncMessages :
                 \/ pendingSyncChanges' = Append(pendingSyncChanges, message)
                 \/ Drains(Append(pendingSyncChanges, message))
        /\ ~IsCall("sync change")
           => \/ pendingSyncChanges' = pendingSyncChanges
              \/ Drains(pendingSyncChanges) ]_vars


\* the step drains exactly one change, of the given operation
DrainsOne(operation) ==
    /\ DrainStep
    /\ Len(drained') = 1
    /\ drained'[1].operation = operation

\* every record of items but the one of trackingId is what the drain found
OthersKept(trackingId) ==
    \A other \in DOMAIN ItemsBeforeDrain \ {trackingId} :
        /\ other \in DOMAIN items'
        /\ items'[other] = ItemsBeforeDrain[other]

\* C36: a drained sync insert of a key with no mapping takes a tracking id
\* never used before, stores the message's value under it and maps the key
\* to it; a drained sync insert of a mapped key keeps the mapping and puts
\* the message's value in place of the record of the mapped tracking id; no
\* record is added besides, and two keys never share a tracking id
C36_SyncInsertAllocatesOrReuses ==
    [][ /\ DrainsOne("insert")
           => LET key == drained'[1].key
                  trackingId == syncKeyToTrackingId'[key]
              IN  /\ key \in DOMAIN syncKeyToTrackingId'
                  /\ IF key \in DOMAIN syncKeyToTrackingId
                     THEN /\ syncKeyToTrackingId' = syncKeyToTrackingId
                          /\ nextTrackingId' = nextTrackingId
                     ELSE /\ trackingId = nextTrackingId
                          /\ trackingId \notin DOMAIN ItemsBeforeDrain
                          /\ trackingId \notin DOMAIN pendingItems
                          /\ nextTrackingId' = nextTrackingId + 1
                          /\ syncKeyToTrackingId'
                                = MapSet(syncKeyToTrackingId, key, trackingId)
                  /\ DOMAIN items' = DOMAIN ItemsBeforeDrain \cup {trackingId}
                  /\ ValueOf(heap', items'[trackingId]) = drained'[1].value
                  /\ TrackingIdOf(heap', items'[trackingId]) = trackingId
                  /\ OthersKept(trackingId)
        /\ \A k1, k2 \in DOMAIN syncKeyToTrackingId' :
              k1 # k2 => syncKeyToTrackingId'[k1] # syncKeyToTrackingId'[k2]
      ]_vars

\* a sync insert of a mapped key has just replaced the record of its
\* tracking id, next to the record of another key: the record it replaced
\* is an object of its own
C36_Witness ==
    /\ last.call = "sync change"
    /\ Len(drained) = 1
    /\ drained[1].operation = "insert"
    /\ drained[1].value.title = "b"
    /\ DOMAIN syncKeyToTrackingId = SyncKeys
    /\ DOMAIN items = {1, 2}
    /\ LET trackingId == syncKeyToTrackingId[drained[1].key]
       IN  /\ ValueOf(heap, items[trackingId]).title = "b"
           /\ \E ref \in DOMAIN heap :
                  /\ ref # items[trackingId]
                  /\ heap[ref].kind = "plain"
                  /\ heap[ref].trackingId = trackingId
                  /\ heap[ref].value.title = "a"


\* C37: a drained sync update of a key mapped to a record writes the fields
\* the message's value has over that record and keeps its other fields and
\* its tracking id, under the same tracking id and with the mapping and
\* every other record as they were; a drained sync update of a key with no
\* mapping changes neither items nor the mapping
C37_SyncUpdateMergesFields ==
    [][ DrainsOne("update")
        => LET key == drained'[1].key
               value == drained'[1].value
           IN  /\ syncKeyToTrackingId' = syncKeyToTrackingId
               /\ IF /\ key \in DOMAIN syncKeyToTrackingId
                     /\ syncKeyToTrackingId[key] \in DOMAIN ItemsBeforeDrain
                  THEN LET trackingId == syncKeyToTrackingId[key]
                           existing == ItemsBeforeDrain[trackingId]
                       IN  /\ DOMAIN items' = DOMAIN ItemsBeforeDrain
                           /\ \A f \in Fields :
                                 ValueOf(heap', items'[trackingId])[f]
                                    = IF value[f] # Undefined THEN value[f]
                                      ELSE ValueOf(heap, existing)[f]
                           /\ TrackingIdOf(heap', items'[trackingId])
                                 = trackingId
                           /\ OthersKept(trackingId)
                  ELSE items' = ItemsBeforeDrain ]_vars

\* a sync update that carries count only has just been applied to a record
\* whose title a sync insert had set: the record has both
C37_Witness ==
    /\ last.call = "sync change"
    /\ Len(drained) = 1
    /\ drained[1].operation = "update"
    /\ drained[1].value = [title |-> Undefined, count |-> "b"]
    /\ drained[1].key \in DOMAIN syncKeyToTrackingId
    /\ syncKeyToTrackingId[drained[1].key] \in DOMAIN items
    /\ ValueOf(heap, items[syncKeyToTrackingId[drained[1].key]])
          = [title |-> "a", count |-> "b"]


\* change i of the event is operation i of the list, and the event has as
\* many changes as the list has operations
CarriesInOrder(event, operations) ==
    /\ Len(event.changes) = Len(operations)
    /\ \A i \in DOMAIN operations :
          /\ event.changes[i].type = operations[i].type
          /\ event.changes[i].item = operations[i].item

\* C38: an insert, update or delete a transaction accepts in began goes to
\* the end of its operation list, which otherwise never changes; the
\* TRANSACTION_COMPLETED event the transaction sends when it commits carries
\* that list, operation by operation in the order of acceptance
C38_CompletedCarriesOperationsInOrder ==
    [][ \A tx \in DOMAIN txs :
          /\ SubSeq(txs'[tx].operations, 1, Len(txs[tx].operations))
                = txs[tx].operations
          /\ ~IsOpen(tx) => txs'[tx].operations = txs[tx].operations
          /\ (IsTransactionCall /\ last'.tx = tx /\ last'.result = "ok")
             => /\ Len(txs'[tx].operations) = Len(txs[tx].operations) + 1
                /\ last'.call =
                      TransactionMethod(
                          txs'[tx].operations[Len(txs'[tx].operations)].type)
          /\ (IsOpen(tx) /\ txs'[tx].state = "committing")
             => /\ Len(completedEvents') = Len(completedEvents) + 1
                /\ LET event == completedEvents'[Len(completedEvents')]
                   IN  /\ event.transactionId = tx
                       /\ event.status = "committed"
                       /\ CarriesInOrder(event, txs'[tx].operations) ]_vars

\* a transaction that accepted an insert and then a delete has just
\* committed: its event carries the insert first
C38_Witness ==
    /\ last.call = "commit"
    /\ last.tx = "t1"
    /\ Len(txs["t1"].operations) = 2
    /\ txs["t1"].operations[1].type = "insert"
    /\ txs["t1"].operations[2].type = "delete"
    /\ Len(completedEvents) = 1
    /\ completedEvents[1].transactionId = "t1"
    /\ completedEvents[1].changes[1].type = "insert"
    /\ completedEvents[1].changes[2].type = "delete"


\* the collection as the settlement of this step would leave it with a
\* handler that does its work
AfterHandledCommit ==
    LET handled == [World EXCEPT !.onMutation = "resolves"]
    IN  IF IsCall("commit") THEN COMMIT(handled, last'.tx)
        ELSE PROCESS_BATCH(handled)

\* C39: when a transaction commits and the onMutation handler fails, by a
\* rejected promise or by an exception, items with its records, the lock
\* table and the transaction registry are after the step what they are
\* after the same commit with a handler that succeeds
C39_HandlerFailureKeepsCommit ==
    [][ (/\ SettlingTx \in DOMAIN txs
         /\ IsOpen(SettlingTx)
         /\ ~stopped
         /\ onMutation \in {"rejects", "throws"})
        => /\ items' = AfterHandledCommit.items
           /\ Records(World)' = Records(AfterHandledCommit)
           /\ lockedItems' = AfterHandledCommit.lockedItems
           /\ transactionActors' = AfterHandledCommit.transactionActors ]_vars


\* the entries a delta has under a tag: none if it has no such tag
EntriesAt(h, delta, tag) ==
    IF tag \in DOMAIN h[delta].tags THEN h[h[delta].tags[tag]].entries
    ELSE EmptyMap

\* C40: the delta mergeDelta(target, source) returns is a new object that
\* has, under each tag, the entries of target and of source, with the value
\* of source on a path both have; the call changes no object that existed
\* before it, target and source included; and with a source that has no
\* entry the delta returned has the tags and the entries of target
C40_MergeDeltaUnionSourceWins ==
    [][ IsCall("mergeDelta")
        => LET target == last'.target
               source == last'.source
               result == Len(heap')
           IN  /\ result \notin DOMAIN heap
               /\ heap'[result].kind = "delta"
               /\ \A tag \in DeltaTags :
                     LET ofTarget == EntriesAt(heap, target, tag)
                         ofSource == EntriesAt(heap, source, tag)
                         merged == EntriesAt(heap', result, tag)
                     IN  /\ DOMAIN merged = DOMAIN ofTarget \cup DOMAIN ofSource
                         /\ \A path \in DOMAIN merged :
                               merged[path] = IF path \in DOMAIN ofSource
                                              THEN ofSource[path]
                                              ELSE ofTarget[path]
               /\ \A ref \in DOMAIN heap : heap'[ref] = heap[ref]
               /\ isDeltaEmpty(heap, source)
                  => /\ DOMAIN heap'[result].tags = DOMAIN heap[target].tags
                     /\ \A tag \in DeltaTags :
                           EntriesAt(heap', result, tag)
                              = EntriesAt(heap, target, tag) ]_vars

\* a target that sets title to "a" and count has just been merged with a
\* source that sets title to "b": the result has "b" and the count of target
C40_Witness ==
    /\ last.call = "mergeDelta"
    /\ last.target # last.source
    /\ EntriesAt(heap, last.target, "$set") = [title |-> "a", count |-> "a"]
    /\ EntriesAt(heap, last.source, "$set") = [title |-> "b"]
    /\ EntriesAt(heap, Len(heap), "$set") = [title |-> "b", count |-> "a"]
    /\ EntriesAt(heap, last.target, "$unset") = [title |-> "true"]
    /\ EntriesAt(heap, Len(heap), "$unset") = [title |-> "true"]

====
